---------------------------- MODULE Spec2Model ----------------------------
(***************************************************************************)
(* Model of the clinic-info widget.                                        *)
(*                                                                         *)
(*   - the Clinic Map Embedder, embedClinicMap({parentSelector,            *)
(*     clinicType, colors}) and the init() it returns (main.js), together  *)
(*     with the page bootstrap that builds several instances and starts    *)
(*     their init() without awaiting them;                                 *)
(*   - the Height-Sync Reporter, reactiveContent() of script2.js.          *)
(*                                                                         *)
(* JavaScript strings that the code inspects character by character        *)
(* (parentSelector, the colours) are sequences of one-character strings.   *)
(* An optional value is a set: {} when the property is missing, {v} when   *)
(* it is given.                                                            *)
(***************************************************************************)
EXTENDS Integers, Sequences, FiniteSets, Bags, TLC

\* ------------------------------------------------------------------ bounds

\* embedder instances on the page in the page specification
NumInst == 2
\* init() calls made on the one instance of the sequential specification
MaxInits == 2
\* longest parentSelector enumerated by the construction specification
MaxSelLen == 3
\* timers the reporter specification lets setTimeout create
MaxTimers == 3
\* messages the reporter specification lets the page post to its parent
MaxPosts == 3

\* ------------------------------------------------------------ optionals

Absent == {}

Some(v) == {v}

Get(o) == CHOOSE v \in o : TRUE

\* `x ?? d`
OrElse(o, d) == IF o = Absent THEN d ELSE Get(o)

\* --------------------------------------------------------------- strings

RECURSIVE TrimStart(_)
TrimStart(s) ==
  IF s # <<>> /\ Head(s) = " " THEN TrimStart(Tail(s)) ELSE s

RECURSIVE TrimEnd(_)
TrimEnd(s) ==
  IF s # <<>> /\ s[Len(s)] = " " THEN TrimEnd(SubSeq(s, 1, Len(s) - 1)) ELSE s

\* String.prototype.trim
Trim(s) == TrimEnd(TrimStart(s))

\* String.prototype.startsWith, for a one-character needle
StartsWith(s, c) == s # <<>> /\ Head(s) = c

\* the characters parentSelector is built from in the construction specification
SelChars == {"#", " ", "a"}

RECURSIVE SeqsUpTo(_, _)
SeqsUpTo(S, n) ==
  IF n = 0 THEN {<<>>}
  ELSE LET shorter == SeqsUpTo(S, n - 1)
       IN  shorter \cup {Append(s, c) : s \in shorter, c \in S}


\* ------------------------------------------------------ embedder: values

Sections == {"title", "map", "details"}

\* the clinic types of the bootstrap page
ClinicTypes == {"juno", "juno-diet", "atom"}

Digits == {"0", "1", "2", "3", "4", "5", "6", "7", "8", "9"}

\* defaultColors.mainColor, '#000'
DefaultMainColor == <<"#", "0", "0", "0">>

\* defaultColors.subColor, '#fff'
DefaultSubColor == <<"#", "f", "f", "f">>

\* mergedColors = {...defaultColors, ...colors}
mergedColors(colors) ==
  [mainColor |-> OrElse(colors.mainColor, DefaultMainColor),
   subColor  |-> OrElse(colors.subColor, DefaultSubColor)]

\* the `state` object before the DOM is probed
EmptyState ==
  [titleSvg |-> "", mapSvg |-> "", clinicDetails |-> <<"object">>,
   isVisibleTitle |-> FALSE, isVisibleMap |-> FALSE,
   isVisibleDetailsAccordion |-> FALSE]

\* !x for an optional string held as a sequence of characters
FalsySeq(o) == o = Absent \/ Get(o) = <<>>

\* a check for undefined alone
FalsyStrOnlyAbsent(o) == o = Absent

\* !x for an optional string held as a TLA+ string
FalsyStr(o) == o = Absent \/ Get(o) = ""

\* document.querySelector raises SyntaxError unless `${parentSelector} [data-cl-...]`
\* is a selector: every "#" must be followed by the first character of a name.
SelectorSyntaxOk(sel) ==
  \A k \in 1..Len(sel) :
    sel[k] = "#" =>
      /\ k < Len(sel)
      /\ sel[k + 1] \notin ({"#", " ", "-"} \cup Digits)

\* What embedClinicMap(params) does up to `return { init }`, on a page whose
\* element selected by parentSelector holds the marker elements `marks`.
embedClinicMap(params, marks) ==
  IF FalsySeq(params.parentSelector) \/ FalsyStr(params.clinicType)
  THEN [threw |-> TRUE, error |-> "required", colors |-> mergedColors(params.colors),
        state |-> EmptyState]
  ELSE IF ~StartsWith(Trim(Get(params.parentSelector)), "#")
  THEN [threw |-> TRUE, error |-> "id-selector", colors |-> mergedColors(params.colors),
        state |-> EmptyState]
  ELSE IF ~SelectorSyntaxOk(Get(params.parentSelector))
  THEN [threw |-> TRUE, error |-> "SyntaxError", colors |-> mergedColors(params.colors),
        state |-> EmptyState]
  ELSE [threw |-> FALSE, error |-> "",
        colors |-> mergedColors(params.colors),
        state |-> [EmptyState EXCEPT
                     !.isVisibleTitle = "title" \in marks,
                     !.isVisibleMap = "map" \in marks,
                     !.isVisibleDetailsAccordion = "details" \in marks]]

\* ---------------------------------------------------- embedder: network

\* Content-Type header values, as the list of their parts; <<>> is no header
NoHeader == <<>>

\* contentType.includes(part)
Includes(contentType, part) == \E k \in 1..Len(contentType) : contentType[k] = part

\* isContentType that looks only for a header
isContentTypeAnyHeader(response, type) == response.ct # NoHeader

\* isContentType(response, type)
isContentType(response, type) ==
  IF response.ct = NoHeader THEN FALSE
  ELSE CASE type = "json" -> Includes(response.ct, "application/json")
         [] type = "text" -> Includes(response.ct, "text/plain")
         [] type = "xml"  -> \/ Includes(response.ct, "image/svg+xml")
                             \/ Includes(response.ct, "application/xml")
         [] type = "html" -> Includes(response.ct, "text/html")
         [] OTHER -> FALSE

\* the type each section's response is checked against in fetchAllWithSetData
CheckedType(s) == IF s = "details" THEN "json" ELSE "xml"

\* values of promises.title / promises.map / promises.details and of what they
\* resolve to: null (not requested), a fetch in flight, undefined, a Response
NullPromise == [tag |-> "null", ct |-> NoHeader, body |-> <<"none">>]

Pending == [tag |-> "pending", ct |-> NoHeader, body |-> <<"none">>]

Undefined == [tag |-> "undefined", ct |-> NoHeader, body |-> <<"none">>]

\* what the network did with one fetch: the request failed, or a response came
Rejected == [kind |-> "reject", ok |-> FALSE, ct |-> NoHeader, body |-> <<"none">>]

NotAsked == [kind |-> "none", ok |-> FALSE, ct |-> NoHeader, body |-> <<"none">>]

Response(ok, ct, body) == [kind |-> "response", ok |-> ok, ct |-> ct, body |-> body]

\* fetchData(url), once fetch(url) has settled with outcome o
fetchData(o) ==
  IF o.kind = "reject" THEN Undefined
  ELSE IF ~o.ok THEN Undefined
  ELSE [tag |-> "response", ct |-> o.ct, body |-> o.body]

\* res && isContentType(res, type)
Passes(res, s) == res.tag = "response" /\ isContentType(res, CheckedType(s))

\* response.text(): the body's text, or a rejection when the body cannot be read
ReadText(res) ==
  IF res.body[1] = "text" THEN [threw |-> FALSE, value |-> res.body[2]]
  ELSE [threw |-> TRUE, value |-> ""]

\* response.json(): the value the body's text stands for, or a rejection when the
\* body cannot be read or is not JSON
ReadJson(res) ==
  IF res.body[1] = "json" THEN [threw |-> FALSE, value |-> res.body[2]]
  ELSE [threw |-> TRUE, value |-> <<"object">>]

\* the URL fetched for section s by an instance of clinic type t
UrlOf(s, t) ==
  CASE s = "title"   -> <<"images", "title.svg">>
    [] s = "map"     -> <<"images", t, "map.svg">>
    [] s = "details" -> <<"data", t, "clinic-details.json">>

\* -------------------------------------------------- embedder: rendering

\* what a marker element holds before the widget renders into it
HostContent == <<"host">>

\* parser.parseFromString(markup, 'image/svg+xml').documentElement
ParseSvg(markup) == <<"svg", markup>>

\* the .cl-details-acd__list-sub-item built for one clinic
ClinicItem(clinic) ==
  [name     |-> OrElse(clinic.name, ""),
   hours    |-> OrElse(clinic.hours, ""),
   closed   |-> OrElse(clinic.closed, ""),
   address  |-> OrElse(clinic.address, ""),
   stations |-> OrElse(clinic.stations, ""),
   iframe   |-> IF clinic.mapUrl # Absent /\ Get(clinic.mapUrl) # ""
                THEN clinic.mapUrl ELSE Absent]

\* the .cl-details-acd__list-item built for one area; areaData?.clinics.forEach
\* raises TypeError when the area has no clinics property
AreaItem(areaData) ==
  IF areaData.clinics = Absent
  THEN [threw |-> TRUE, header |-> "", body |-> <<>>]
  ELSE [threw |-> FALSE,
        header |-> OrElse(areaData.area, ""),
        body |-> [k \in 1..Len(Get(areaData.clinics)) |->
                    ClinicItem(Get(areaData.clinics)[k])]]

\* createClinicDetailsAccordion(), for state.clinicDetails an array
createClinicDetailsAccordion(areas) ==
  LET items == [k \in 1..Len(areas) |-> AreaItem(areas[k])]
  IN  IF \E k \in 1..Len(areas) : items[k].threw
      THEN [threw |-> TRUE, el |-> HostContent]
      ELSE [threw |-> FALSE,
            el |-> <<"list", [k \in 1..Len(areas) |->
                                [header |-> items[k].header, body |-> items[k].body]]>>]

\* state.clinicDetails.length > 0: TypeError on null, false on an object
HasItems(details) ==
  CASE details[1] = "null"  -> [threw |-> TRUE, value |-> FALSE]
    [] details[1] = "array" -> [threw |-> FALSE, value |-> Len(details[2]) > 0]
    [] OTHER                -> [threw |-> FALSE, value |-> FALSE]

\* createContents(): the marker elements' new contents, and whether it threw
createContents(st, slots) ==
  LET afterTitle ==
        IF st.isVisibleTitle /\ st.titleSvg # ""
        THEN [slots EXCEPT !["title"] = ParseSvg(st.titleSvg)] ELSE slots
      afterMap ==
        IF st.isVisibleMap /\ st.mapSvg # ""
        THEN [afterTitle EXCEPT !["map"] = ParseSvg(st.mapSvg)] ELSE afterTitle
      has == HasItems(st.clinicDetails)
      acd == createClinicDetailsAccordion(st.clinicDetails[2])
  IN  IF ~st.isVisibleDetailsAccordion THEN [threw |-> FALSE, slots |-> afterMap]
      ELSE IF has.threw THEN [threw |-> TRUE, slots |-> afterMap]
      ELSE IF ~has.value THEN [threw |-> FALSE, slots |-> afterMap]
      ELSE IF acd.threw THEN [threw |-> TRUE, slots |-> afterMap]
      ELSE [threw |-> FALSE, slots |-> [afterMap EXCEPT !["details"] = acd.el]]

\* the <style> element embedStyleTag() builds: the selector its rules are scoped
\* by and the two colours they use
StyleTag(parentSelector, colors) ==
  [scope |-> parentSelector, fill |-> colors.mainColor,
   background |-> colors.subColor]

\* embedStyleTag(): document.head.appendChild(styleEle)
embedStyleTag(hd, parentSelector, colors) ==
  hd (+) SetToBag({StyleTag(parentSelector, colors)})

\* ------------------------------------------------------ embedder: state

VARIABLES
  page,        \* the instances the page makes
  params,      \* params[i]: the argument of embedClinicMap for instance i
  markers,     \* markers[i]: sections whose marker element is under parentSelector
  ctor,        \* ctor[i]: "pending", "instance", or the error construction threw
  colors,      \* colors[i]: mergedColors of instance i
  state,       \* state[i]: the `state` object of instance i
  slot,        \* slot[i][s]: what the marker element of section s holds
  head,        \* the <style> elements of document.head, a bag
  pc,          \* pc[i]: where the running init() of instance i is
  promises,    \* promises[i][s]: promises.title/.map/.details and what they settled to
  network,     \* network[i][s]: what the network did with the fetch of this call
  requests,    \* requests[i]: the URLs instance i passed to fetch, in order
  bodyRead,    \* bodyRead[i]: sections whose body this call read (text()/json())
  caught,      \* caught[i]: what the catch of this init() call caught
  initResult,  \* initResult[i]: how the promise of the latest init() call settled
  before,      \* before[i]: `state` and the marker elements when this call began
  inits,       \* inits[i]: init() calls made on instance i
  settled      \* settled[i]: init() calls of instance i whose promise has settled

embedVars ==
  <<page, params, markers, ctor, colors, state, slot, head, pc, promises,
    network, requests, bodyRead, caught, initResult, before, inits, settled>>

\* the reporter's variables
VARIABLES
  innerWidth,   \* window.innerWidth
  innerHeight,  \* window.innerHeight
  pageHeight,   \* $('.page-wrap').height()
  lastWidth,    \* lastWidth of reactiveContent
  timeout,      \* `timeout` of the debounce closure: 0 (undefined) or a timer id
  timers,       \* the window's pending timers: [id, left], left in ticks
  nextId,       \* the id setTimeout returns next
  posts,        \* messages posted to window.parent so far
  lastMsg,      \* the latest message posted to window.parent
  quiet,        \* ticks since the latest resize event, up to DelayTicks
  burst,        \* width-changing resize events, each less than Delay after the
                \* resize event before it, that no debounced callback has followed
  ev            \* the event handled last

reporterVars ==
  <<innerWidth, innerHeight, pageHeight, lastWidth, timeout, timers, nextId,
    posts, lastMsg, quiet, burst, ev>>

vars == <<embedVars, reporterVars>>

Inst == 1..NumInst

Order == <<"title", "map", "details">>

IndexOf(s) == CHOOSE k \in 1..3 : Order[k] = s

Visible(st, s) ==
  CASE s = "title"   -> st.isVisibleTitle
    [] s = "map"     -> st.isVisibleMap
    [] s = "details" -> st.isVisibleDetailsAccordion

\* fetchAllWithSetData without its three `if (state.isVisible...)`
RequestedAll(st) == Sections

\* the sections fetchAllWithSetData issues a fetch for
Requested(st) == {s \in Sections : Visible(st, s)}

RECURSIVE UrlsFrom(_, _, _)
UrlsFrom(k, wanted, t) ==
  IF k > 3 THEN <<>>
  ELSE (IF Order[k] \in wanted THEN <<UrlOf(Order[k], t)>> ELSE <<>>)
       \o UrlsFrom(k + 1, wanted, t)

\* init() without its try/catch
initOutcomeNoCatch(threw) == IF threw THEN "rejected" ELSE "fulfilled"

\* how the promise of init() settles: the catch block swallows what was thrown
initOutcome(threw) == "fulfilled"

\* createContents(); embedStyleTag(); inside init's try
RenderAndStyle(st, slots, hd, parentSelector, cols) ==
  LET r == createContents(st, slots)
  IN  [slots |-> r.slots,
       head  |-> IF r.threw THEN hd ELSE embedStyleTag(hd, parentSelector, cols),
       threw |-> r.threw]

\* the first check at or after the k-th that passes: its body is awaited next
FirstPassing(res, k) ==
  LET pass == {j \in k..3 : Passes(res[Order[j]], Order[j])}
  IN  IF pass = {} THEN 4 ELSE CHOOSE j \in pass : \A m \in pass : j <= m

\* a join that resumes on the first settled promise, as Promise.race would
AnySettled(res) == \E s \in Sections : res[s].tag # "pending"

\* Promise.all resolves once none of the promises is in flight
AllSettled(res) == \A s \in Sections : res[s].tag # "pending"

ReadPc(j) == <<"read", Order[j]>>

\* init() embedding: the call made on instance i
StartInit(i) ==
  /\ i \in page
  /\ ctor[i] = "instance"
  /\ pc[i][1] \in {"idle", "done"}
  /\ inits[i] < MaxInits
  /\ inits' = [inits EXCEPT ![i] = @ + 1]
  /\ promises' = [promises EXCEPT ![i] =
                    [s \in Sections |->
                       IF s \in Requested(state[i]) THEN Pending ELSE NullPromise]]
  /\ network' = [network EXCEPT ![i] = [s \in Sections |-> NotAsked]]
  /\ requests' = [requests EXCEPT ![i] =
                    @ \o UrlsFrom(1, Requested(state[i]), Get(params[i].clinicType))]
  /\ pc' = [pc EXCEPT ![i] = <<"join">>]
  /\ initResult' = [initResult EXCEPT ![i] = "pending"]
  /\ caught' = [caught EXCEPT ![i] = "none"]
  /\ bodyRead' = [bodyRead EXCEPT ![i] = {}]
  /\ before' = [before EXCEPT ![i] = [state |-> state[i], slot |-> slot[i]]]
  /\ UNCHANGED <<page, params, markers, ctor, colors, state, slot, head, settled>>
  /\ UNCHANGED reporterVars

\* fetch(url) of section s settles with outcome o; fetchData returns
FetchSettle(i, s, o) ==
  /\ i \in page
  /\ pc[i] = <<"join">>
  /\ promises[i][s].tag = "pending"
  /\ network' = [network EXCEPT ![i][s] = o]
  /\ promises' = [promises EXCEPT ![i][s] = fetchData(o)]
  /\ UNCHANGED <<page, params, markers, ctor, colors, state, slot, head, pc,
                 requests, bodyRead, caught, initResult, before, inits, settled>>
  /\ UNCHANGED reporterVars

\* init() runs from the k-th content-type check, with `state` = st, to its next
\* await or to its end
Continue(i, k, st) ==
  LET j == FirstPassing(promises[i], k)
      r == RenderAndStyle(st, slot[i], head, Get(params[i].parentSelector), colors[i])
  IN  IF j <= 3
      THEN /\ pc' = [pc EXCEPT ![i] = ReadPc(j)]
           /\ state' = [state EXCEPT ![i] = st]
           /\ UNCHANGED <<slot, head, caught, initResult, settled>>
      ELSE /\ pc' = [pc EXCEPT ![i] = <<"done">>]
           /\ state' = [state EXCEPT ![i] = st]
           /\ slot' = [slot EXCEPT ![i] = r.slots]
           /\ head' = r.head
           /\ caught' = [caught EXCEPT ![i] = IF r.threw THEN "render" ELSE "none"]
           /\ initResult' = [initResult EXCEPT ![i] = initOutcome(r.threw)]
           /\ settled' = [settled EXCEPT ![i] = @ + 1]

\* `await Promise.all([...])` resumes
Join(i) ==
  /\ i \in page
  /\ pc[i] = <<"join">>
  /\ AllSettled(promises[i])
  /\ Continue(i, 1, state[i])
  /\ UNCHANGED <<page, params, markers, ctor, colors, promises, network,
                 requests, bodyRead, before, inits>>
  /\ UNCHANGED reporterVars

\* state after `state.<field> = value` for section s
Commit(st, s, value) ==
  CASE s = "title"   -> [st EXCEPT !.titleSvg = value]
    [] s = "map"     -> [st EXCEPT !.mapSvg = value]
    [] s = "details" -> [st EXCEPT !.clinicDetails = value]

\* `await res.text()` / `await res.json()` of the awaited section settles
ReadSettle(i) ==
  /\ i \in page
  /\ pc[i][1] = "read"
  /\ LET s == pc[i][2]
         r == IF s = "details" THEN ReadJson(promises[i][s])
              ELSE ReadText(promises[i][s])
     IN  /\ bodyRead' = [bodyRead EXCEPT ![i] = @ \cup {s}]
         /\ IF r.threw
            THEN /\ pc' = [pc EXCEPT ![i] = <<"done">>]
                 /\ caught' = [caught EXCEPT ![i] = "body"]
                 /\ initResult' = [initResult EXCEPT ![i] = initOutcome(TRUE)]
                 /\ settled' = [settled EXCEPT ![i] = @ + 1]
                 /\ UNCHANGED <<state, slot, head>>
            ELSE Continue(i, IndexOf(s) + 1, Commit(state[i], s, r.value))
  /\ UNCHANGED <<page, params, markers, ctor, colors, promises, network,
                 requests, before, inits>>
  /\ UNCHANGED reporterVars

\* embedClinicMap(params[i]) is called
Construct(i) ==
  /\ i \in page
  /\ ctor[i] = "pending"
  /\ LET r == embedClinicMap(params[i], markers[i])
     IN  IF r.threw
         THEN /\ ctor' = [ctor EXCEPT ![i] = r.error]
              /\ UNCHANGED <<colors, state>>
         ELSE /\ ctor' = [ctor EXCEPT ![i] = "instance"]
              /\ colors' = [colors EXCEPT ![i] = r.colors]
              /\ state' = [state EXCEPT ![i] = r.state]
  /\ UNCHANGED <<page, params, markers, slot, head, pc, promises, network,
                 requests, bodyRead, caught, initResult, before, inits, settled>>
  /\ UNCHANGED reporterVars

\* ------------------------------------------------------------- reporter

\* the delay passed to debounce, in milliseconds
Delay == 200

\* the length of one clock tick of the model, in milliseconds
TickMs == Delay \div 2

DelayTicks == Delay \div TickMs

\* viewport widths and heights, and heights of .page-wrap, the model draws from
Widths == {320, 768, 1024}

Heights == {600, 900}

\* the value of e.originalEvent.data of the message events the model draws from
NoData == [present |-> FALSE, action |-> Absent]

MessageData ==
  {NoData} \cup
  {[present |-> TRUE, action |-> a] :
     a \in {Absent, Some(""), Some("other"), Some("sendIframeHeight"), Some("getHeight")}}

\* the message sendHeight() posts to window.parent
HeightMessage(height) ==
  [action |-> "sendIframeHeight", iframeHeight |-> height, targetOrigin |-> "*"]

\* a message handler that answers every action
WantsHeightAnyAction(data) == data.present /\ data.action # Absent

\* the condition of the message handler
WantsHeight(data) ==
  /\ data.present
  /\ data.action # Absent
  /\ Get(data.action) # ""
  /\ Get(data.action) = "getHeight"

\* debounce without its clearTimeout
clearTimeoutNot(pending, id) == pending

\* clearTimeout(id)
clearTimeout(pending, id) == {t \in pending : t.id # id}

\* setTimeout(callback, delay)
setTimeout(pending, id, delay) == pending \cup {[id |-> id, left |-> delay \div TickMs]}

\* the debounced callback's condition
WidthChanged(width, last) == width # last

\* the record kept of the event handled last: its type, its message data, whether
\* the handler posted a height, and the value of burst when it ran
Event(type, data, reported) ==
  [type |-> type, data |-> data, reported |-> reported, changes |-> burst,
   seq |-> 1 - ev.seq]

\* sendHeight(), .page-wrap being `height` high when it is measured
sendHeight(height) ==
  /\ posts' = posts + 1
  /\ lastMsg' = HeightMessage(height)

\* the window is resized to w x h: the function debounce returned runs
Resize(w, h) ==
  /\ <<w, h>> # <<innerWidth, innerHeight>>
  /\ nextId <= MaxTimers
  /\ innerWidth' = w
  /\ innerHeight' = h
  /\ timers' = setTimeout(clearTimeout(timers, timeout), nextId, Delay)
  /\ timeout' = nextId
  /\ nextId' = nextId + 1
  /\ quiet' = 0
  /\ burst' = IF w = innerWidth THEN (IF quiet < DelayTicks THEN burst ELSE 0)
              ELSE IF timers # {} /\ quiet < DelayTicks /\ burst >= 1 THEN 2
              ELSE 1
  /\ ev' = Event("resize", NoData, FALSE)
  /\ UNCHANGED <<pageHeight, lastWidth, posts, lastMsg>>
  /\ UNCHANGED embedVars

\* TickMs pass
Tick ==
  /\ timers' = {[t EXCEPT !.left = IF @ > 0 THEN @ - 1 ELSE 0] : t \in timers}
  /\ quiet' = IF quiet < DelayTicks THEN quiet + 1 ELSE quiet
  /\ \/ timers' # timers
     \/ quiet' # quiet
  /\ UNCHANGED <<innerWidth, innerHeight, pageHeight, lastWidth, timeout, nextId,
                 posts, lastMsg, burst, ev>>
  /\ UNCHANGED embedVars

\* a timer that is due runs the callback debounce scheduled
TimerFire(t) ==
  /\ t \in timers
  /\ t.left = 0
  /\ posts < MaxPosts
  /\ timers' = timers \ {t}
  /\ IF WidthChanged(innerWidth, lastWidth)
     THEN /\ lastWidth' = innerWidth
          /\ sendHeight(pageHeight)
          /\ ev' = Event("timer", NoData, TRUE)
     ELSE /\ UNCHANGED <<lastWidth, posts, lastMsg>>
          /\ ev' = Event("timer", NoData, FALSE)
  /\ burst' = 0
  /\ UNCHANGED <<innerWidth, innerHeight, pageHeight, timeout, nextId, quiet>>
  /\ UNCHANGED embedVars

\* a message event arrives
Message(data) ==
  /\ posts < MaxPosts
  /\ IF WantsHeight(data)
     THEN /\ sendHeight(pageHeight)
          /\ ev' = Event("message", data, TRUE)
     ELSE /\ UNCHANGED <<posts, lastMsg>>
          /\ ev' = Event("message", data, FALSE)
  /\ UNCHANGED <<innerWidth, innerHeight, pageHeight, lastWidth, timeout, timers,
                 nextId, quiet, burst>>
  /\ UNCHANGED embedVars

\* a click inside an accordion header, on the header itself or on a descendant
Click(onHeader) ==
  /\ posts < MaxPosts
  /\ IF onHeader
     THEN /\ sendHeight(pageHeight)
          /\ ev' = Event("click", NoData, TRUE)
     ELSE /\ UNCHANGED <<posts, lastMsg>>
          /\ ev' = Event("click", NoData, FALSE)
  /\ UNCHANGED <<innerWidth, innerHeight, pageHeight, lastWidth, timeout, timers,
                 nextId, quiet, burst>>
  /\ UNCHANGED embedVars

\* a transition of an accordion body ends, the page now h high
TransitionEnd(propertyName, h) ==
  /\ posts < MaxPosts
  /\ pageHeight' = h
  /\ IF propertyName = "padding-top"
     THEN /\ sendHeight(h)
          /\ ev' = Event("transitionend", NoData, TRUE)
     ELSE /\ UNCHANGED <<posts, lastMsg>>
          /\ ev' = Event("transitionend", NoData, FALSE)
  /\ UNCHANGED <<innerWidth, innerHeight, lastWidth, timeout, timers, nextId,
                 quiet, burst>>
  /\ UNCHANGED embedVars

\* ------------------------------------------------------ the environment

\* the bodies the servers of the model answer with
TitleSvg == <<"text", "<svg class=cl-svg-title>">>

MapSvg == <<"text", "<svg class=cl-svg-map>">>

EmptyText == <<"text", "">>

\* a body whose stream fails while it is read
Unreadable == <<"unreadable">>

\* a body that reads but is not JSON
NotJson == <<"garbage">>

ClinicA ==
  [name |-> Some("Clinic A"), hours |-> Some("9-5"), closed |-> Some("Sun"),
   address |-> Absent, stations |-> Absent, mapUrl |-> Absent]

ClinicB ==
  [name |-> Some("Clinic B"), hours |-> Some("10-6"), closed |-> Absent,
   address |-> Some("1-2-3"), stations |-> Some("Central"),
   mapUrl |-> Some("https://maps.example/b")]

EastArea == [area |-> Some("East"), clinics |-> Some(<<ClinicA, ClinicB>>)]

\* an area without a clinics property
WestArea == [area |-> Some("West"), clinics |-> Absent]

Json(value) == <<"json", value>>

GoodDetails == Json(<<"array", <<EastArea>>>>)

\* the body that is right for section s
GoodBody(s) ==
  CASE s = "title"   -> TitleSvg
    [] s = "map"     -> MapSvg
    [] s = "details" -> GoodDetails

SvgType == <<"image/svg+xml">>

JsonType == <<"application/json">>

\* the Content-Type that is right for section s
GoodType(s) == IF s = "details" THEN JsonType ELSE SvgType

\* what the network may do with the fetch of section s: the sequential
\* specification draws from all of these
Outcomes(s) ==
  {Rejected, Response(FALSE, GoodType(s), GoodBody(s))}
  \cup {Response(TRUE, ct, GoodBody(s)) :
          ct \in {NoHeader, <<"text/html">>,
                  IF s = "details" THEN SvgType ELSE JsonType}}
  \cup (IF s = "details"
        THEN {Response(TRUE, JsonType, b) :
                b \in {NotJson, Json(<<"null">>), Json(<<"object">>),
                       Json(<<"array", <<>>>>), GoodDetails,
                       Json(<<"array", <<EastArea, WestArea>>>>)}}
             \cup {Response(TRUE, <<"application/json", "charset=utf-8">>, GoodDetails)}
        ELSE {Response(TRUE, SvgType, b) : b \in {Unreadable, EmptyText, GoodBody(s)}}
             \cup {Response(TRUE, <<"application/xml">>, GoodBody(s))})

\* the page and construction specifications draw from these
BasicOutcomes(s) == {Rejected, Response(TRUE, GoodType(s), GoodBody(s))}

DigitOf(i) == <<"1", "2", "3", "4", "5", "6", "7", "8", "9">>[i]

\* '#clinic-list-<i>'
ClinicList(i) ==
  <<"#", "c", "l", "i", "n", "i", "c", "-", "l", "i", "s", "t", "-", DigitOf(i)>>

Pink == <<"#", "f", "d", "7", "e", "a", "5">>

PalePink == <<"#", "f", "f", "d", "e", "e", "8">>

Blue == <<"#", "7", "e", "b", "8", "f", "d">>

PaleBlue == <<"#", "c", "e", "e", "5", "f", "f">>

\* the argument of the i-th embedClinicMap call of the bootstrap page
BootstrapParams(i) ==
  [parentSelector |-> Some(ClinicList(i)),
   clinicType |-> Some(IF i = 1 THEN "juno" ELSE IF i = 2 THEN "juno-diet" ELSE "atom"),
   colors |-> IF i <= 2 THEN [mainColor |-> Some(Pink), subColor |-> Some(PalePink)]
              ELSE [mainColor |-> Some(Blue), subColor |-> Some(PaleBlue)]]

\* the arguments the construction specification draws from
SelectorInputs == {Absent} \cup {Some(sel) : sel \in SeqsUpTo(SelChars, MaxSelLen)}

ClinicTypeInputs == {Absent, Some(""), Some("juno")}

MainColorInputs == {Absent, Some(<<"z", "z", "z">>), Some(<<"f", "f", "f">>)}

SubColorInputs == {Absent, Some(<<"f", "f", "f">>)}

ParamInputs ==
  [parentSelector : SelectorInputs, clinicType : ClinicTypeInputs,
   colors : [mainColor : MainColorInputs, subColor : SubColorInputs]]

\* ---------------------------------------------------------- specifications

\* the reporter after reactiveContent() ran in a window w wide: lastWidth is
\* taken, the first height is sent, the handlers are registered
ReporterLoaded(w, h, ph) ==
  /\ innerWidth = w
  /\ innerHeight = h
  /\ pageHeight = ph
  /\ lastWidth = w
  /\ timeout = 0
  /\ timers = {}
  /\ nextId = 1
  /\ posts = 1
  /\ lastMsg = HeightMessage(ph)
  /\ quiet = DelayTicks
  /\ burst = 0
  /\ ev = [type |-> "load", data |-> NoData, reported |-> TRUE, changes |-> 0,
           seq |-> 0]

\* the embedder variables of a page that makes the instances `made` with the
\* arguments `args`, before (built = FALSE) or after each embedClinicMap returned
EmbedderOf(made, args, marks, built) ==
  /\ page = made
  /\ params = args
  /\ markers = marks
  /\ ctor = [i \in Inst |-> IF built /\ i \in made THEN "instance" ELSE "pending"]
  /\ colors = [i \in Inst |-> mergedColors(args[i].colors)]
  /\ state = [i \in Inst |->
                IF built /\ i \in made THEN embedClinicMap(args[i], marks[i]).state
                ELSE EmptyState]
  /\ slot = [i \in Inst |-> [s \in Sections |-> HostContent]]
  /\ head = EmptyBag
  /\ pc = [i \in Inst |-> <<"idle">>]
  /\ promises = [i \in Inst |-> [s \in Sections |-> NullPromise]]
  /\ network = [i \in Inst |-> [s \in Sections |-> NotAsked]]
  /\ requests = [i \in Inst |-> <<>>]
  /\ bodyRead = [i \in Inst |-> {}]
  /\ caught = [i \in Inst |-> "none"]
  /\ initResult = [i \in Inst |-> "none"]
  /\ before = [i \in Inst |->
                 [state |-> EmptyState, slot |-> [s \in Sections |-> HostContent]]]
  /\ inits = [i \in Inst |-> 0]
  /\ settled = [i \in Inst |-> 0]

MarkersOf(made) ==
  {m \in [Inst -> SUBSET Sections] : \A i \in Inst \ made : m[i] = {}}

\* One instance, built from the first call of the bootstrap page; its init() is
\* called up to MaxInits times, each call after the one before it has settled;
\* the network answers with any of Outcomes.
InitEmbed ==
  /\ \E marks \in MarkersOf({1}) :
       EmbedderOf({1}, [i \in Inst |-> BootstrapParams(i)], marks, TRUE)
  /\ ReporterLoaded(320, 600, 600)

NextEmbed ==
  \/ \E i \in page : StartInit(i)
  \/ \E i \in page : \E s \in Sections : \E o \in Outcomes(s) : FetchSettle(i, s, o)
  \/ \E i \in page : Join(i)
  \/ \E i \in page : ReadSettle(i)

SpecEmbed == InitEmbed /\ [][NextEmbed]_vars

\* the marker elements each container of the bootstrap page holds
PageMarkers == {Sections}

\* The bootstrap page: NumInst instances, init() called once on each without
\* awaiting it. A fetch may never settle.
InitPage ==
  /\ \E marks \in MarkersOf(Inst) :
       /\ \A i \in Inst : marks[i] \in PageMarkers
       /\ EmbedderOf(Inst, [i \in Inst |-> BootstrapParams(i)], marks, TRUE)
  /\ ReporterLoaded(320, 600, 600)

NextPage ==
  \/ \E i \in page : inits[i] = 0 /\ StartInit(i)
  \/ \E i \in page : \E s \in Sections : \E o \in BasicOutcomes(s) :
       FetchSettle(i, s, o)
  \/ \E i \in page : Join(i)
  \/ \E i \in page : ReadSettle(i)

SpecPage == InitPage /\ [][NextPage]_vars

\* Construction: one embedClinicMap call with arguments from ParamInputs, and
\* the init() calls of the instance it returns.
InitCtor ==
  /\ \E p \in ParamInputs : \E marks \in MarkersOf({1}) :
       /\ marks[1] \in {{}, {"details"}}
       /\ EmbedderOf({1}, [i \in Inst |-> IF i = 1 THEN p ELSE BootstrapParams(i)],
                     marks, FALSE)
  /\ ReporterLoaded(320, 600, 600)

NextCtor ==
  \/ Construct(1)
  \/ StartInit(1)
  \/ \E s \in Sections : \E o \in BasicOutcomes(s) : FetchSettle(1, s, o)
  \/ Join(1)
  \/ ReadSettle(1)

SpecCtor == InitCtor /\ [][NextCtor]_vars

\* The reporter, from the end of reactiveContent().
InitReporter ==
  /\ EmbedderOf({}, [i \in Inst |-> BootstrapParams(i)], [i \in Inst |-> {}], FALSE)
  /\ \E w \in Widths : \E h \in Heights : \E ph \in Heights : ReporterLoaded(w, h, ph)

NextReporter ==
  \/ \E w \in Widths : \E h \in Heights : Resize(w, h)
  \/ Tick
  \/ \E t \in timers : TimerFire(t)
  \/ \E data \in MessageData : Message(data)
  \/ \E onHeader \in BOOLEAN : Click(onHeader)
  \/ \E prop \in {"padding-top", "padding-bottom"} : \E h \in Heights :
       TransitionEnd(prop, h)

SpecReporter == InitReporter /\ [][NextReporter]_vars

\* ------------------------------------------------------ claims: embedder

\* the value of the `state` field of section s
FieldOf(st, s) ==
  CASE s = "title"   -> <<"text", st.titleSvg>>
    [] s = "map"     -> <<"text", st.mapSvg>>
    [] s = "details" -> <<"json", st.clinicDetails>>

\* the empty/default value of the `state` field of section s
DefaultField(s) == FieldOf(EmptyState, s)

\* the network answered the fetch of section s with a success status and a
\* Content-Type of the family expected for s
GoodAnswer(o, s) ==
  /\ o.kind = "response"
  /\ o.ok
  /\ \E k \in 1..Len(o.ct) :
       o.ct[k] \in (IF s = "details" THEN {"application/json"}
                    ELSE {"image/svg+xml", "application/xml"})

\* the network answered, and the answer fails the status or the content-type check
BadAnswer(o, s) == o.kind \in {"reject", "response"} /\ ~GoodAnswer(o, s)

\* the body is one that section s can be rendered from
WellFormed(body, s) ==
  IF s = "details"
  THEN /\ body[1] = "json"
       /\ body[2][1] = "array"
       /\ Len(body[2][2]) > 0
       /\ \A k \in 1..Len(body[2][2]) : body[2][2][k].clinics # Absent
  ELSE body[1] = "text" /\ body[2] # ""

\* what the marker element of section s holds once the body is rendered into it
RenderedFrom(body, s) ==
  IF s = "details" THEN createClinicDetailsAccordion(body[2][2]).el
  ELSE <<"svg", body[2]>>

\* the <style> elements of instance i in document.head
StylesOf(i) ==
  CopiesIn(StyleTag(Get(params[i].parentSelector), colors[i]), head)

Done(i) == pc[i] = <<"done">>

\* C1: the promise of init() never rejects: whatever the markers and whatever
\* each resource does (network error, bad status, bad Content-Type, unreadable
\* or unparsable body, data that makes rendering throw), a call that has
\* finished has a fulfilled promise.
C1_InitNeverRejects ==
  \A i \in Inst :
    /\ initResult[i] # "rejected"
    /\ Done(i) => initResult[i] = "fulfilled"

\* an init() call finished although rendering the fetched details threw
C1_Witness ==
  \E i \in Inst :
    /\ Done(i)
    /\ caught[i] = "render"
    /\ GoodAnswer(network[i]["details"], "details")
    /\ initResult[i] = "fulfilled"

\* C2: for each section whose marker is present and whose resource came with
\* success status, matching Content-Type and a well-formed body, the marker
\* element holds the rendered section once init() has finished, whatever
\* happened to the other two resources.
C2_SectionsIndependent ==
  \A i \in Inst : \A s \in Sections :
    (/\ Done(i)
     /\ s \in markers[i]
     /\ GoodAnswer(network[i][s], s)
     /\ WellFormed(network[i][s].body, s))
    => slot[i][s] = RenderedFrom(network[i][s].body, s)

Occurrences(seq, x) == Cardinality({k \in 1..Len(seq) : seq[k] = x})

\* C3: a request for a section is issued if and only if its marker element was
\* present at construction: after n init() calls the instance has fetched the
\* URL of each marked section n times and no other URL.
C3_RequestsFollowMarkers ==
  \A i \in Inst : \A s \in Sections :
    Occurrences(requests[i], UrlOf(s, Get(params[i].clinicType)))
      = IF s \in markers[i] /\ ctor[i] = "instance" THEN inits[i] ELSE 0

\* only the details marker is present and init() ran: one request, for the details
C3_Witness ==
  \E i \in Inst :
    /\ markers[i] = {"details"}
    /\ Done(i)
    /\ inits[i] = 1
    /\ requests[i] = <<UrlOf("details", Get(params[i].clinicType))>>

\* C4 as stated: in any init() call a field is written only if its resource
\* came with success status and the expected content-type family; a field whose
\* resource failed either check keeps its empty/default value, its body is never
\* read and its marker element is left as it was.
C4_FailedKeepsDefault ==
  \A i \in Inst : \A s \in Sections :
    pc[i] # <<"idle">> =>
      /\ FieldOf(state[i], s) # FieldOf(before[i].state, s)
           => GoodAnswer(network[i][s], s)
      /\ BadAnswer(network[i][s], s) =>
           /\ FieldOf(state[i], s) = DefaultField(s)
           /\ s \notin bodyRead[i]
           /\ slot[i][s] = before[i].slot[s]

\* C4 as amended: in any init() call a field is changed only if its resource
\* came with success status and the expected content-type family; a field whose
\* resource failed either check keeps the value it had when the call began
\* (empty/default unless an earlier call committed one), its body is never read,
\* and its marker element is left as it was while that value is the
\* empty/default one.
C4_CommitRule ==
  \A i \in Inst : \A s \in Sections :
    pc[i] # <<"idle">> =>
      /\ FieldOf(state[i], s) # FieldOf(before[i].state, s)
           => GoodAnswer(network[i][s], s)
      /\ s \in bodyRead[i] => GoodAnswer(network[i][s], s)
      /\ BadAnswer(network[i][s], s) =>
           /\ FieldOf(state[i], s) = FieldOf(before[i].state, s)
           /\ s \notin bodyRead[i]
           /\ FieldOf(before[i].state, s) = DefaultField(s)
                => slot[i][s] = before[i].slot[s]

\* a second init() call whose details came as text/html: the details of the
\* first call are still in `state`
C4_Witness ==
  \E i \in Inst :
    /\ Done(i)
    /\ inits[i] = 2
    /\ network[i]["details"] = Response(TRUE, <<"text/html">>, GoodDetails)
    /\ "details" \notin bodyRead[i]
    /\ FieldOf(state[i], "details") = GoodDetails

\* C5: every init() call that completes appends exactly one <style> element,
\* whatever was fetched, validated or rendered: after n completed calls the head
\* holds n stylesheets of the instance.
C5_OneStylePerInit ==
  \A i \in Inst : ctor[i] = "instance" => StylesOf(i) = settled[i]

\* -------------------------------------------------- claims: construction

\* parentSelector was not given, or was given empty
MissingSelector(o) == o = Absent \/ Get(o) = <<>>

\* clinicType was not given, or was given empty
MissingType(o) == o = Absent \/ Get(o) = ""

HexDigits ==
  Digits \cup {"a", "b", "c", "d", "e", "f", "A", "B", "C", "D", "E", "F"}

\* validateColorCode(colorCode): /^([0-9A-Fa-f]{3}|[0-9A-Fa-f]{6})$/
validateColorCode(colorCode) ==
  /\ Len(colorCode) \in {3, 6}
  /\ \A k \in 1..Len(colorCode) : colorCode[k] \in HexDigits

\* construction left the page alone: no instance whose init() could run, no
\* fetch, no change of a marker element or of the head
Untouched(i) ==
  /\ inits[i] = 0
  /\ requests[i] = <<>>
  /\ \A s \in Sections : slot[i][s] = HostContent
  /\ head = EmptyBag

\* C6 as stated: construction throws, with no instance, fetch or DOM change,
\* exactly when parentSelector is missing, clinicType is missing or
\* parentSelector does not start with "#".
C6_ThrowsIffInvalid ==
  ctor[1] # "pending" =>
    IF \/ MissingSelector(params[1].parentSelector)
       \/ MissingType(params[1].clinicType)
       \/ ~StartsWith(Get(params[1].parentSelector), "#")
    THEN ctor[1] # "instance" /\ Untouched(1)
    ELSE ctor[1] = "instance"

\* C6 as amended: construction throws, with no instance, fetch or DOM change,
\* when parentSelector is missing, clinicType is missing or parentSelector with
\* its leading white space removed does not start with "#"; for every other
\* configuration whose parentSelector the DOM accepts as a selector,
\* construction succeeds.
C6_Construction ==
  ctor[1] # "pending" =>
    IF \/ MissingSelector(params[1].parentSelector)
       \/ MissingType(params[1].clinicType)
       \/ ~StartsWith(TrimStart(Get(params[1].parentSelector)), "#")
    THEN ctor[1] \in {"required", "id-selector"} /\ Untouched(1)
    ELSE SelectorSyntaxOk(Get(params[1].parentSelector)) => ctor[1] = "instance"

\* ' #a', which does not start with "#", was accepted
C6_Witness ==
  /\ params[1].parentSelector = Some(<<" ", "#", "a">>)
  /\ ctor[1] = "instance"

\* C7: a mainColor or subColor that is not a 3- or 6-digit hexadecimal string,
\* or that is missing, never reaches the stylesheet: every <style> element of
\* the instance uses the default for that colour.
C7_InvalidColorFallsBack ==
  \A style \in BagToSet(head) :
    /\ (\/ params[1].colors.mainColor = Absent
        \/ ~validateColorCode(Get(params[1].colors.mainColor)))
       => style.fill = DefaultMainColor
    /\ (\/ params[1].colors.subColor = Absent
        \/ ~validateColorCode(Get(params[1].colors.subColor)))
       => style.background = DefaultSubColor

\* ------------------------------------------------------ claims: reporter

\* this step ran the handler of an event of the given type
Handled(type) == ev'.seq # ev.seq /\ ev'.type = type

\* C8 as stated: a resize posts a height only from the debounced callback, run
\* once Delay has passed without a resize event, and only if the width then
\* differs from the remembered one; at most one timer is pending; and the
\* callback that follows two width-changing resizes less than Delay apart posts
\* exactly one height and remembers the latest width.
C8_TwoChangesOneReport ==
  [][/\ Handled("resize") => posts' = posts
     /\ Handled("timer") =>
          /\ quiet = DelayTicks
          /\ posts' # posts => innerWidth # lastWidth
          /\ ev'.changes >= 2 => posts' = posts + 1 /\ lastWidth' = innerWidth
     /\ Cardinality(timers') <= 1
    ]_vars

\* C8 as amended: a resize posts a height only from the debounced callback, which
\* runs once Delay has passed without a resize event, and only if the viewport
\* width then differs from the remembered width, which becomes that width; a
\* callback that finds the remembered width posts nothing, so resizes that change
\* only the height, or that bring the width back to the remembered one, post
\* nothing; at most one timer is pending, each resize cancelling the pending one
\* and starting a new one; two width-changing resizes less than Delay apart are
\* followed by one callback, which posts exactly one height if the width then
\* differs from the remembered width and none if it does not.
C8_Debounce ==
  /\ [][/\ Handled("resize") =>
             /\ posts' = posts
             /\ lastWidth' = lastWidth
             /\ timers' = {[id |-> timeout', left |-> DelayTicks]}
        /\ Handled("timer") =>
             /\ quiet = DelayTicks
             /\ timers' = {}
             /\ lastWidth' = innerWidth
             /\ posts' = posts + (IF innerWidth # lastWidth THEN 1 ELSE 0)
             /\ ev'.reported = (innerWidth # lastWidth)
             /\ ev'.reported => lastMsg' = HeightMessage(pageHeight)
        /\ Cardinality(timers') <= 1
       ]_vars

\* two width-changing resizes less than Delay apart, then one callback, which
\* posted a height and remembered the latest width
C8_Witness ==
  /\ ev.type = "timer"
  /\ ev.changes = 2
  /\ ev.reported
  /\ lastWidth = innerWidth
  /\ timers = {}

\* C9: a message whose data has action "getHeight" posts exactly one
\* sendIframeHeight message at once, leaving the pending debounce timer and the
\* remembered width as they are; a message with no data, no action or another
\* action posts nothing.
C9_GetHeight ==
  [][Handled("message") =>
       IF ev'.data.present /\ ev'.data.action = Some("getHeight")
       THEN /\ posts' = posts + 1
            /\ lastMsg' = HeightMessage(pageHeight)
            /\ lastMsg'.action = "sendIframeHeight"
            /\ timers' = timers
            /\ timeout' = timeout
            /\ lastWidth' = lastWidth
       ELSE /\ posts' = posts
            /\ lastMsg' = lastMsg
    ]_vars

\* a getHeight message was answered while a debounce timer was pending and the
\* width had changed: the timer is still pending, the old width still remembered
C9_Witness ==
  /\ ev.type = "message"
  /\ ev.data.action = Some("getHeight")
  /\ ev.reported
  /\ timers # {}
  /\ lastWidth # innerWidth

\* ---------------------------------------------------------- claims: page

HasPending(i) == \E s \in Sections : promises[i][s].tag = "pending"

\* the continuations init() of instance j still has to run, at most
Rank(j) ==
  CASE pc[j] = <<"idle">>            -> 5
    [] pc[j] = <<"join">>            -> 4
    [] pc[j] = <<"read", "title">>   -> 3
    [] pc[j] = <<"read", "map">>     -> 2
    [] pc[j] = <<"read", "details">> -> 1
    [] pc[j] = <<"done">>            -> 0

\* C10: every requested fetch is issued when init() starts, before any outcome
\* is awaited; while a fetch of an instance is in flight the instance writes no
\* `state` field, replaces no marker element and appends no stylesheet, so an
\* instance with a fetch that never settles never renders and never styles;
\* an instance whose own fetches have settled is never kept waiting by another
\* instance: its next continuation is ready to run, whatever the others do, and
\* each continuation brings it nearer to the end of init().
C10_FanOutFanIn ==
  /\ [](\A i \in Inst :
          /\ inits[i] = 1 =>
               /\ Len(requests[i]) = Cardinality(markers[i])
               /\ \A s \in markers[i] : promises[i][s].tag # "null"
          /\ HasPending(i) =>
               /\ pc[i] = <<"join">>
               /\ state[i] = before[i].state
               /\ slot[i] = [s \in Sections |-> HostContent]
               /\ bodyRead[i] = {}
               /\ StylesOf(i) = 0
          /\ (pc[i] = <<"join">> /\ ~HasPending(i)) => ENABLED Join(i)
          /\ pc[i][1] = "read" => ENABLED ReadSettle(i))
  /\ [][\A i \in Inst :
          /\ Rank(i)' <= Rank(i)
          /\ (state'[i] # state[i] \/ slot'[i] # slot[i] \/ pc'[i] # pc[i])
               => Rank(i)' < Rank(i)]_vars

\* the first instance waits for a fetch although another of its fetches brought
\* a good response, while the second instance has finished and rendered
C10_Witness ==
  /\ HasPending(1)
  /\ \E s \in Sections : GoodAnswer(network[1][s], s)
  /\ Done(2)
  /\ \E s \in Sections : network[2][s] = Rejected
  /\ slot[2]["details"] = RenderedFrom(GoodDetails, "details")
  /\ StylesOf(2) = 1

=============================================================================
